---- MODULE Spec2Model ----
(***************************************************************************)
(* Fetch cache, fetch log and graph builder of insta-followers            *)
(* (src/main.py).                                                          *)
(*                                                                         *)
(* Text is modelled as a sequence of chunks (TLA+ strings).  A chunk is    *)
(* one character or one byte, or a run of characters the code never looks  *)
(* inside.  The log file is a sequence of bytes, a key is a sequence of    *)
(* characters; item.encode('utf8') and line.decode('utf8') convert between *)
(* the two.                                                                *)
(***************************************************************************)
EXTENDS Naturals, Sequences, FiniteSets

VARIABLES
    log,        \* bytes of data/json/list.txt (JSON_LIST)
    cache,      \* files under data/json: path -> text, DOMAIN = existing files
    urls,       \* fetch_jsons: the argument
    index,      \* fetch_jsons: position of the for loop in urls (0: no call)
    pc,         \* fetch_json: the statement to run next
    response,   \* download_json: what requests_.get returned
    data,       \* fetch_json: the local `data`
    downloads,  \* transport: number of requests_.get calls per url
    errors,     \* number of calls that ended by raising
    calls,      \* number of fetch_json calls started
    replayed,   \* caller: outcome of the last list(load_items_cache(path))
    item,       \* caller: argument of the last update_items_cache call
    appends,    \* caller: number of update_items_cache calls made directly
    users,      \* make_graph: the argument
    gi,         \* make_graph: position of the for loop in users
    gpc,        \* make_graph: "idle", "loop", "done" or "raised"
    graph       \* make_graph: the nx.DiGraph under construction

vars == <<log, cache, urls, index, pc, response, data, downloads, errors,
          calls, replayed, item, appends, users, gi, gpc, graph>>

fetchVars == <<cache, urls, index, pc, response, data, downloads, errors, calls>>
graphVars == <<users, gi, gpc, graph>>
logVars == <<replayed, item, appends>>

-----------------------------------------------------------------------------
(* Characters and bytes *)

TAB == "\t"
NL == "\n"
SP == " "
EACUTE == "U+00E9"    \* a non-ASCII character; its UTF-8 encoding is C3 A9

Hex == <<"0", "1", "2", "3", "4", "5", "6", "7",
         "8", "9", "a", "b", "c", "d", "e", "f">>

RECURSIVE Flatten(_)
Flatten(ss) == IF ss = <<>> THEN <<>> ELSE Head(ss) \o Flatten(Tail(ss))

Last(s) == s[Len(s)]

IsPrefix(s, t) == Len(s) <= Len(t) /\ SubSeq(t, 1, Len(s)) = s

StrictPrefixes(s) == {SubSeq(s, 1, n) : n \in 0..(Len(s) - 1)}

RECURSIVE SetToSeq(_)
SetToSeq(S) ==
    IF S = {} THEN <<>>
    ELSE LET x == CHOOSE y \in S : TRUE IN <<x>> \o SetToSeq(S \ {x})

\* unicode.encode('utf8')
utf8_encode(text) ==
    Flatten([i \in 1..Len(text) |->
                IF text[i] = EACUTE THEN <<"C3", "A9">> ELSE <<text[i]>>])

\* str.decode('utf8'): strict, so a lead byte without its continuation byte
\* and a continuation byte without its lead byte raise UnicodeDecodeError.
RECURSIVE utf8_decode(_)
utf8_decode(bytes) ==
    IF bytes = <<>> THEN [ok |-> TRUE, text |-> <<>>]
    ELSE IF bytes[1] = "C3"
    THEN IF Len(bytes) >= 2 /\ bytes[2] = "A9"
         THEN LET rest == utf8_decode(SubSeq(bytes, 3, Len(bytes)))
              IN [ok |-> rest.ok, text |-> <<EACUTE>> \o rest.text]
         ELSE [ok |-> FALSE, text |-> <<>>]
    ELSE IF bytes[1] = "A9" THEN [ok |-> FALSE, text |-> <<>>]
    ELSE LET rest == utf8_decode(Tail(bytes))
         IN [ok |-> rest.ok, text |-> <<bytes[1]>> \o rest.text]

-----------------------------------------------------------------------------
(* Keys *)

\* get_insta_query_url: re.sub('\s+', '', query)
RECURSIVE StripWhitespace(_)
StripWhitespace(text) ==
    IF text = <<>> THEN <<>>
    ELSE IF Head(text) \in {SP, TAB, NL} THEN StripWhitespace(Tail(text))
    ELSE <<Head(text)>> \o StripWhitespace(Tail(text))

get_insta_query_url(query) ==
    <<"https://www.instagram.com/query/?q=">> \o StripWhitespace(query)

get_insta_related_url(id) ==
    get_insta_query_url(
        <<NL, "ig_user(", id, ")", SP, "{", NL, SP, SP,
          "chaining{nodes{...,id,...,username}}", NL, "}", NL>>)

\* the users of the graph build
Alice == [id |-> "101", username |-> "alice"]
Bob == [id |-> "102", username |-> "bob"]
Carol == [id |-> "103", username |-> "carol"]
SeedUsers == {Alice, Bob}

\* the urls handed to fetch_json / fetch_jsons
FetchKeys == {<<"u">>, <<EACUTE>>, <<"u", NL>>}

\* the items handed to update_items_cache directly
LogKeys == {<<"u">>, <<EACUTE>>, <<"u", TAB, "u">>, <<SP, "u">>, <<"u", NL>>,
            <<NL, "u">>}

NoNewline(text) == \A i \in 1..Len(text) : text[i] # NL

-----------------------------------------------------------------------------
(* Identity hasher *)

\* Every byte string that is ever hashed, in a fixed order.
HashedInputs ==
    SetToSeq({utf8_encode(k) : k \in FetchKeys \cup LogKeys
                  \cup {get_insta_related_url(u.id) : u \in SeedUsers}})

\* sha1(...).hexdigest(): a digest of fixed width over the hex digits, and
\* no two inputs share a digest.
sha1_hexdigest(bytes) ==
    LET n == CHOOSE i \in 1..Len(HashedInputs) : HashedInputs[i] = bytes
    IN <<Hex[(n \div 16) + 1], Hex[(n % 16) + 1]>>

hash_item(text) == sha1_hexdigest(utf8_encode(text))

get_json_filename(url) == hash_item(url) \o <<".json">>

get_json_path(url) == <<"data/json/">> \o get_json_filename(url)

-----------------------------------------------------------------------------
(* Fetch log *)

\* `for line in file`: the lines of the file, each with its "\n" when it has one
RECURSIVE FileLines(_, _)
FileLines(bytes, line) ==
    IF bytes = <<>> THEN (IF line = <<>> THEN <<>> ELSE <<line>>)
    ELSE IF Head(bytes) = NL
    THEN <<Append(line, NL)>> \o FileLines(Tail(bytes), <<>>)
    ELSE FileLines(Tail(bytes), Append(line, Head(bytes)))

\* rstrip left out: the line keeps its "\n"
rstrip_nl_missing(text) == text

\* unicode.rstrip('\n')
RECURSIVE rstrip_nl(_)
rstrip_nl(text) ==
    IF text # <<>> /\ Last(text) = NL
    THEN rstrip_nl(SubSeq(text, 1, Len(text) - 1))
    ELSE text

HasTab(text) == \E i \in 1..Len(text) : text[i] = TAB

FirstTab(text) ==
    CHOOSE i \in 1..Len(text) :
        text[i] = TAB /\ \A j \in 1..(i - 1) : text[j] # TAB

\* line.split('\t', 1)
split_tab(text) ==
    <<SubSeq(text, 1, FirstTab(text) - 1),
      SubSeq(text, FirstTab(text) + 1, Len(text))>>

\* load_items_cache, run to its end: the items yielded, and whether the
\* generator stopped by raising (UnicodeDecodeError from line.decode).
RECURSIVE load_lines(_, _)
load_lines(lines, items) ==
    IF lines = <<>> THEN [items |-> items, raised |-> FALSE]
    ELSE LET decoded == utf8_decode(Head(lines))
             line == rstrip_nl(decoded.text)
         IN IF ~decoded.ok THEN [items |-> items, raised |-> TRUE]
            ELSE IF HasTab(line)
            THEN load_lines(Tail(lines), Append(items, split_tab(line)[2]))
            ELSE load_lines(Tail(lines), items)

load_items_cache(content) == load_lines(FileLines(content, <<>>), <<>>)

\* the line update_items_cache writes for an item
LogLine(text) == hash_item(text) \o <<TAB>> \o utf8_encode(text) \o <<NL>>

\* update_items_cache with the two fields of the line exchanged
update_items_cache_swapped(text, content) ==
    content \o utf8_encode(text) \o <<TAB>> \o hash_item(text) \o <<NL>>

\* update_items_cache: open(path, 'a') and write the line
update_items_cache(text, content) == content \o LogLine(text)

-----------------------------------------------------------------------------
(* Payloads and their JSON text *)

\* Python values the transport can deliver: None, an object without the
\* 'chaining' field, and {'chaining': {'nodes': [...]}}.
None == [kind |-> "null", chaining |-> FALSE, nodes |-> <<>>]
PlainObject == [kind |-> "object", chaining |-> FALSE, nodes |-> <<>>]
Related(nodes) == [kind |-> "object", chaining |-> TRUE, nodes |-> nodes]

InstaRelatedRecord(id, username) == [id |-> id, username |-> username]

JsonOpen == "{\"chaining\":{\"nodes\":["
JsonClose == "]}}"
JsonMarks == {"null", "{}", JsonOpen, JsonClose, "<html>"}

\* cjson.encode
cjson_encode(value) ==
    IF value.kind = "null" THEN <<"null">>
    ELSE IF ~value.chaining THEN <<"{}">>
    ELSE <<JsonOpen>>
         \o Flatten([i \in 1..Len(value.nodes) |->
                        <<value.nodes[i].id, value.nodes[i].username>>])
         \o <<JsonClose>>

\* cjson.decode / response.json(): the value, or ok = FALSE where the parser
\* raises (DecodeError, a ValueError)
cjson_decode(text) ==
    IF text = <<"null">> THEN [ok |-> TRUE, value |-> None]
    ELSE IF text = <<"{}">> THEN [ok |-> TRUE, value |-> PlainObject]
    ELSE IF /\ Len(text) >= 2
            /\ Head(text) = JsonOpen
            /\ Last(text) = JsonClose
            /\ Len(text) % 2 = 0
            /\ \A i \in 2..(Len(text) - 1) : text[i] \notin JsonMarks
    THEN [ok |-> TRUE,
          value |-> Related([i \in 1..((Len(text) - 2) \div 2) |->
                       InstaRelatedRecord(text[2 * i], text[2 * i + 1])])]
    ELSE [ok |-> FALSE, value |-> None]

\* dump_json with open(path, 'a'): the text goes after what the file holds
dump_json_appending(path, value, files) ==
    [p \in DOMAIN files \cup {path} |->
        IF p = path
        THEN (IF p \in DOMAIN files THEN files[p] ELSE <<>>)
             \o cjson_encode(value)
        ELSE files[p]]

\* dump_json: open(path, 'w') and write the encoded data
dump_json(path, value, files) ==
    [p \in DOMAIN files \cup {path} |->
        IF p = path THEN cjson_encode(value) ELSE files[p]]

\* what a dump_json that raises can leave behind: nothing changed (open
\* raised), or the file truncated by open and only partly written
dump_json_aborted(path, value, files) ==
    {files} \cup
    {[p \in DOMAIN files \cup {path} |-> IF p = path THEN part ELSE files[p]] :
        part \in StrictPrefixes(cjson_encode(value))}

\* load_raw_json: raises IOError when the file is missing and DecodeError
\* when its text does not parse
load_raw_json(path, files) ==
    IF path \notin DOMAIN files THEN [ok |-> FALSE, value |-> None]
    ELSE cjson_decode(files[path])

load_json(url, files) == load_raw_json(get_json_path(url), files)

\* download_json answering an empty object where the body does not decode
download_json_empty_object(resp) ==
    LET decoded == cjson_decode(resp.body)
    IN IF decoded.ok THEN decoded.value ELSE PlainObject

\* download_json: response.json(), or None on ValueError
download_json(resp) ==
    LET decoded == cjson_decode(resp.body)
    IN IF decoded.ok THEN decoded.value ELSE None

-----------------------------------------------------------------------------
(* Bounds *)

MaxFetches == 2     \* fetch_json calls in one run
MaxLogLen == 3      \* bytes of the log file the log operations start from
MaxAppends == 2     \* direct update_items_cache calls in one run
MaxSeeds == 2       \* users handed to make_graph
MaxNodes == 2       \* related accounts in one payload

SeqsUpTo(S, n) == UNION {[1..m -> S] : m \in 0..n}

-----------------------------------------------------------------------------
(* Initial values *)

NoFiles == [p \in {} |-> <<>>]
NoResponse == [status |-> "none", body |-> <<>>]
NotReplayed == [ran |-> FALSE, items |-> <<>>, raised |-> FALSE]
EmptyGraph == [nodes |-> {}, edges |-> <<>>]

FetchIdle ==
    /\ urls = <<>>
    /\ index = 0
    /\ pc = "idle"
    /\ response = NoResponse
    /\ data = None
    /\ downloads = [k \in FetchKeys |-> 0]
    /\ errors = 0
    /\ calls = 0

LogIdle ==
    /\ replayed = NotReplayed
    /\ item = <<>>
    /\ appends = 0

GraphIdle ==
    /\ users = <<>>
    /\ gi = 0
    /\ gpc = "idle"
    /\ graph = EmptyGraph

-----------------------------------------------------------------------------
(* The log operations on their own: any file content, any item *)

LogBytes == {TAB, NL, "u", "C3", "A9"}

InitLog ==
    /\ log \in SeqsUpTo(LogBytes, MaxLogLen)
    /\ cache = NoFiles
    /\ FetchIdle
    /\ LogIdle
    /\ GraphIdle

\* update_items_cache(item, JSON_LIST)
UpdateItemsCache(k) ==
    /\ appends < MaxAppends
    /\ log' = update_items_cache(k, log)
    /\ item' = k
    /\ appends' = appends + 1
    /\ UNCHANGED <<cache, fetchVars, graphVars, replayed>>

\* list(list_json_cache())
ListJsonCache ==
    /\ replayed' = [ran |-> TRUE,
                    items |-> load_items_cache(log).items,
                    raised |-> load_items_cache(log).raised]
    /\ UNCHANGED <<log, cache, fetchVars, graphVars, item, appends>>

NextLog ==
    \/ \E k \in LogKeys : UpdateItemsCache(k)
    \/ ListJsonCache

SpecLog == InitLog /\ [][NextLog]_vars

-----------------------------------------------------------------------------
(* Fetcher *)

\* fetch_json appending the log record before it writes the cache entry
fetch_json_log_first == <<"download", "update", "dump">>

\* fetch_json without its last statement, update_json_cache(url)
fetch_json_unlogged == <<"download", "dump">>

\* fetch_json: the statements after `path = get_json_path(url)`, in order
fetch_json_order == <<"download", "dump", "update">>

\* what the transport can answer: an undecodable body and decodable ones
Bodies == {<<"<html>">>, <<"{}">>,
           cjson_encode(Related(<<InstaRelatedRecord(Bob.id, Bob.username)>>))}

url == urls[index]

\* the statement `step` of fetch_json has run and left the locals at resp and
\* dat: on to the next statement, or back to the for loop of fetch_jsons,
\* whose next call of fetch_json starts with fresh locals
Advance(step, resp, dat) ==
    LET i == CHOOSE j \in 1..Len(fetch_json_order) : fetch_json_order[j] = step
    IN IF i < Len(fetch_json_order)
       THEN /\ pc' = fetch_json_order[i + 1]
            /\ response' = resp
            /\ data' = dat
            /\ UNCHANGED <<urls, index>>
       ELSE IF index < Len(urls)
       THEN /\ pc' = fetch_json_order[1]
            /\ index' = index + 1
            /\ response' = NoResponse
            /\ data' = None
            /\ UNCHANGED urls
       ELSE /\ pc' = "idle"
            /\ index' = 0
            /\ urls' = <<>>
            /\ response' = resp
            /\ data' = dat

\* an exception caught in the for loop of fetch_jsons: on to the next url
RaiseCaught ==
    /\ errors' = errors + 1
    /\ IF index < Len(urls)
       THEN pc' = fetch_json_order[1] /\ index' = index + 1 /\ UNCHANGED urls
       ELSE pc' = "idle" /\ index' = 0 /\ urls' = <<>>

\* an exception leaves fetch_json and fetch_jsons: nothing catches it
Raise ==
    /\ errors' = errors + 1
    /\ pc' = "idle"
    /\ index' = 0
    /\ urls' = <<>>

\* fetch_jsons(us)
FetchJsons(us) ==
    /\ pc = "idle"
    /\ us # <<>>
    /\ calls + Len(us) <= MaxFetches
    /\ calls' = calls + Len(us)
    /\ urls' = us
    /\ index' = 1
    /\ pc' = fetch_json_order[1]
    /\ response' = NoResponse
    /\ data' = None
    /\ UNCHANGED <<log, cache, downloads, errors, logVars, graphVars>>

\* download_json: requests_.get answers
DownloadJson(body) ==
    /\ pc = "download"
    /\ downloads' = [downloads EXCEPT ![url] = @ + 1]
    /\ Advance("download", [status |-> "ok", body |-> body],
               download_json([status |-> "ok", body |-> body]))
    /\ UNCHANGED <<log, cache, errors, calls, logVars, graphVars>>

\* download_json: requests_.get raises (no connection, timeout, ...)
DownloadJsonRaises ==
    /\ pc = "download"
    /\ downloads' = [downloads EXCEPT ![url] = @ + 1]
    /\ Raise
    /\ UNCHANGED <<log, cache, response, data, calls, logVars, graphVars>>

\* dump_json(path, data)
DumpJson ==
    /\ pc = "dump"
    /\ cache' = dump_json(get_json_path(url), data, cache)
    /\ Advance("dump", response, data)
    /\ UNCHANGED <<log, downloads, errors, calls, logVars,
                   graphVars>>

\* dump_json raises (IOError from open or from write)
DumpJsonRaises ==
    /\ pc = "dump"
    /\ cache' \in dump_json_aborted(get_json_path(url), data, cache)
    /\ Raise
    /\ UNCHANGED <<log, response, data, downloads, calls, logVars, graphVars>>

\* update_json_cache(url)
UpdateJsonCache ==
    /\ pc = "update"
    /\ log' = update_items_cache(url, log)
    /\ Advance("update", response, data)
    /\ UNCHANGED <<cache, downloads, errors, calls, logVars,
                   graphVars>>

\* update_json_cache raises (IOError): none or only a part of the line
\* reached the file
UpdateJsonCacheRaises ==
    /\ pc = "update"
    /\ \E part \in StrictPrefixes(LogLine(url)) : log' = log \o part
    /\ Raise
    /\ UNCHANGED <<cache, response, data, downloads, calls, logVars,
                   graphVars>>

FetchSteps ==
    \/ \E body \in Bodies : DownloadJson(body)
    \/ DownloadJsonRaises
    \/ DumpJson
    \/ DumpJsonRaises
    \/ UpdateJsonCache
    \/ UpdateJsonCacheRaises

Init ==
    /\ log = <<>>
    /\ cache = NoFiles
    /\ FetchIdle
    /\ LogIdle
    /\ GraphIdle

Next ==
    \/ \E us \in SeqsUpTo(FetchKeys, MaxFetches) : FetchJsons(us)
    \/ FetchSteps

Spec == Init /\ [][Next]_vars

\* A caller that consults the log first: fetch_json(k) only for a k that
\* list_json_cache() does not yield.
FetchJsonUnlisted(k) ==
    /\ ~load_items_cache(log).raised
    /\ \A i \in 1..Len(load_items_cache(log).items) :
           load_items_cache(log).items[i] # k
    /\ FetchJsons(<<k>>)

NextUnlisted ==
    \/ \E k \in FetchKeys : FetchJsonUnlisted(k)
    \/ FetchSteps

SpecUnlisted == Init /\ [][NextUnlisted]_vars

-----------------------------------------------------------------------------
(* Graph builder *)

\* parse_insta_related, run to its end: the records yielded; ok = FALSE
\* where `'chaining' not in data` raises TypeError (data is None)
parse_insta_related(value) ==
    IF value.kind = "null" THEN [ok |-> FALSE, records |-> <<>>]
    ELSE IF ~value.chaining THEN [ok |-> TRUE, records |-> <<>>]
    ELSE [ok |-> TRUE,
          records |-> [i \in 1..Len(value.nodes) |->
                          InstaRelatedRecord(value.nodes[i].id,
                                             value.nodes[i].username)]]

\* load_insta_related: ok = FALSE where load_json or the parser raises
load_insta_related(id, files) ==
    LET loaded == load_json(get_insta_related_url(id), files)
    IN IF ~loaded.ok THEN [ok |-> FALSE, records |-> <<>>]
       ELSE parse_insta_related(loaded.value)

\* add_edge of a multigraph: an edge that is already there is added again
add_edge_multi(g, source, target) ==
    [nodes |-> g.nodes \cup {source, target},
     edges |-> Append(g.edges, <<source, target>>)]

\* nx.DiGraph.add_edge: both endpoints become nodes, and an edge that is
\* already there is not added again.  edges is in the order of insertion.
add_edge(g, source, target) ==
    [nodes |-> g.nodes \cup {source, target},
     edges |-> IF \E i \in 1..Len(g.edges) : g.edges[i] = <<source, target>>
               THEN g.edges
               ELSE Append(g.edges, <<source, target>>)]

\* the inner for loop of make_graph
RECURSIVE add_related(_, _, _)
add_related(g, source, records) ==
    IF records = <<>> THEN g
    ELSE add_related(add_edge(g, source, Head(records).username), source,
                     Tail(records))

RelatedRecords ==
    {InstaRelatedRecord(u.id, u.username) : u \in {Alice, Bob, Carol}}

\* what the cache can hold for a related url: the texts dump_json writes,
\* and a text cut short by a write that raised
RelatedTexts ==
    {cjson_encode(v) :
        v \in {None, PlainObject}
              \cup {Related(ns) : ns \in SeqsUpTo(RelatedRecords, MaxNodes)}}
    \cup {<<JsonOpen>>}

RelatedPaths == {get_json_path(get_insta_related_url(u.id)) : u \in SeedUsers}

InitGraph ==
    /\ log = <<>>
    /\ cache \in UNION {[D -> RelatedTexts] : D \in SUBSET RelatedPaths}
    /\ FetchIdle
    /\ LogIdle
    /\ GraphIdle

\* make_graph(us): graph = nx.DiGraph()
MakeGraph(us) ==
    /\ gpc = "idle"
    /\ users' = us
    /\ gi' = 1
    /\ gpc' = "loop"
    /\ graph' = EmptyGraph
    /\ UNCHANGED <<log, cache, fetchVars, logVars>>

\* one turn of `for user in users`
MakeGraphUser ==
    /\ gpc = "loop"
    /\ gi <= Len(users)
    /\ load_insta_related(users[gi].id, cache).ok
    /\ graph' = add_related(graph, users[gi].username,
                            load_insta_related(users[gi].id, cache).records)
    /\ gi' = gi + 1
    /\ UNCHANGED <<log, cache, fetchVars, logVars, users, gpc>>

\* one turn of `for user in users` that raises: nothing catches it
MakeGraphRaises ==
    /\ gpc = "loop"
    /\ gi <= Len(users)
    /\ ~load_insta_related(users[gi].id, cache).ok
    /\ gpc' = "raised"
    /\ UNCHANGED <<log, cache, fetchVars, logVars, users, gi, graph>>

\* return graph
MakeGraphReturn ==
    /\ gpc = "loop"
    /\ gi > Len(users)
    /\ gpc' = "done"
    /\ UNCHANGED <<log, cache, fetchVars, logVars, users, gi, graph>>

NextGraph ==
    \/ \E us \in SeqsUpTo(SeedUsers, MaxSeeds) : MakeGraph(us)
    \/ MakeGraphUser
    \/ MakeGraphRaises
    \/ MakeGraphReturn

SpecGraph == InitGraph /\ [][NextGraph]_vars

-----------------------------------------------------------------------------
(* Properties of the fetch log *)

\* The bytes after the first tab of every line of the file that has a tab,
\* in file order, the "\n" that ends a line left out.
RECURSIVE TabbedTexts(_)
TabbedTexts(lines) ==
    IF lines = <<>> THEN <<>>
    ELSE LET line == IF Last(Head(lines)) = NL
                     THEN SubSeq(Head(lines), 1, Len(Head(lines)) - 1)
                     ELSE Head(lines)
         IN (IF HasTab(line) THEN <<split_tab(line)[2]>> ELSE <<>>)
            \o TabbedTexts(Tail(lines))

\* C3: whatever the log file holds, replay does not raise and yields, in file
\* order, exactly the text after the first tab of each line that has a tab;
\* a line without a tab is skipped and the lines after it are still replayed.
C3_ReplayToleratesAnyContent ==
    /\ ~load_items_cache(log).raised
    /\ [i \in 1..Len(load_items_cache(log).items) |->
           utf8_encode(load_items_cache(log).items[i])]
       = TabbedTexts(FileLines(log, <<>>))

\* C9 as stated: for every log content and every item, also one with
\* whitespace in it, replay after update_items_cache(item) yields what it
\* yielded before, followed by the item.
C9_AppendExtendsReplayAnyItem ==
    [][appends' = appends + 1
       => load_items_cache(log').items
          = Append(load_items_cache(log).items, item')]_vars

\* C9 amended: the log only grows at its end, and when the log is empty or
\* ends with a newline and the item has no newline in it, the appended log
\* ends with a newline again and replay yields what it yielded before
\* followed by the item; where replay of the old content raises, replay of
\* the new content raises at the same line after the same items.
C9_AppendExtendsReplay ==
    [][/\ IsPrefix(log, log')
       /\ (/\ appends' = appends + 1
           /\ NoNewline(item')
           /\ (log = <<>> \/ Last(log) = NL))
          => /\ Last(log') = NL
             /\ IF load_items_cache(log).raised
                THEN load_items_cache(log') = load_items_cache(log)
                ELSE load_items_cache(log')
                     = [items |-> Append(load_items_cache(log).items, item'),
                        raised |-> FALSE]]_vars

\* The same item appended twice to a log that already holds a record: replay
\* yields the old item and then the new item twice.
C9_Witness ==
    /\ appends = 2
    /\ NoNewline(item)
    /\ ~load_items_cache(log).raised
    /\ Len(load_items_cache(log).items) = 3
    /\ load_items_cache(log).items[2] = item
    /\ load_items_cache(log).items[3] = item
    /\ replayed.ran
    /\ replayed.items = <<load_items_cache(log).items[1]>>

-----------------------------------------------------------------------------
(* Properties of the fetcher *)

Range(seq) == {seq[i] : i \in 1..Len(seq)}

\* the keys list_json_cache() yields
ReplayedKeys == Range(load_items_cache(log).items)

\* the keys whose cache entry exists
CachedKeys == {k \in FetchKeys : get_json_path(k) \in DOMAIN cache}

\* the log holds the start of the record of k: its digest and the tab
HasRecordOf(content, k) ==
    \E i \in 1..Len(content) :
        /\ i + Len(hash_item(k)) <= Len(content)
        /\ SubSeq(content, i, i + Len(hash_item(k))) = hash_item(k) \o <<TAB>>

Undecodable(resp) == resp.status = "ok" /\ ~cjson_decode(resp.body).ok

Sum(f) == f[<<"u">>] + f[<<EACUTE>>] + f[<<"u", NL>>]

C4_LenientFetch ==
    /\ [][(pc = "download" /\ Undecodable(response'))
          => (errors' = errors /\ pc' = "dump" /\ data' = None)]_vars
    /\ [][(pc = "dump" /\ Undecodable(response) /\ pc' = "update")
          => /\ get_json_path(url) \in DOMAIN cache'
             /\ cache'[get_json_path(url)] = <<"null">>
             /\ cjson_decode(cache'[get_json_path(url)]).value = None]_vars
    /\ [][(pc = "update" /\ Undecodable(response) /\ errors' = errors
             /\ pc' # "update")
          => log' = log \o hash_item(url) \o <<TAB>> \o utf8_encode(url)
                        \o <<NL>>]_vars

\* A fetch of an undecodable body has returned: null is cached, and the
\* record is the log.
C4_Witness ==
    /\ pc = "idle"
    /\ errors = 0
    /\ Undecodable(response)
    /\ cache = [p \in {get_json_path(<<EACUTE>>)} |-> <<"null">>]
    /\ log = LogLine(<<EACUTE>>)

\* C5 as stated: when the fetch of key N of a batch fails, what keys 1..N-1
\* left in the cache and the log stays, and key N+1 is still attempted.
C5_BatchGoesOnAfterFailure ==
    [][(errors' = errors + 1 /\ index < Len(urls))
       => /\ IsPrefix(log, log')
          /\ urls' = urls
          /\ index' = index + 1
          /\ pc' = "download"]_vars

\* C5 amended: a fetch of key N that raises ends the batch: the log keeps
\* every byte it had, every cache entry but that of key N keeps its text,
\* and no later key is attempted.  A fetch of key N that returns, also one
\* of an undecodable body, is followed by the fetch of key N+1.
C5_BatchStopsAtFirstError ==
    [][/\ (errors' = errors + 1)
          => /\ pc' = "idle"
             /\ index' = 0
             /\ urls' = <<>>
             /\ downloads' = downloads \/ pc = "download"
             /\ IsPrefix(log, log')
             /\ \A p \in DOMAIN cache :
                   p # get_json_path(url)
                   => p \in DOMAIN cache' /\ cache'[p] = cache[p]
       /\ (pc = "update" /\ errors' = errors /\ pc' # "update"
             /\ index < Len(urls))
          => /\ urls' = urls
             /\ index' = index + 1
             /\ pc' = "download"]_vars

\* A batch of two keys whose first fetch raised once its cache file was
\* there: one transport call was made and the second key was never attempted.
C5_Witness ==
    /\ pc = "idle"
    /\ errors = 1
    /\ calls = 2
    /\ Sum(downloads) = 1
    /\ Cardinality(DOMAIN cache) = 1

\* C8 as stated: once a cache entry holds a payload, every later fetch_json
\* of the same key leaves the stored payload equal to what it was.
C8_CacheEntriesNeverChange ==
    [][(/\ pc = "dump"
        /\ pc' = "update"
        /\ get_json_path(url) \in DOMAIN cache
        /\ cjson_decode(cache[get_json_path(url)]).ok)
       => cache'[get_json_path(url)] = cache[get_json_path(url)]]_vars

\* C8 amended: the last write wins.  A cache write of fetch_json that
\* completes leaves at the path of the key exactly the encoding of the
\* payload of this fetch, which decodes to that payload, and leaves every
\* other entry alone; so the entry keeps its text exactly when the transport
\* repeats its answer.  No other step but a cache write that raises changes
\* the cache.
C8_LastWriteWins ==
    [][/\ (pc = "dump" /\ pc' = "update")
          => /\ DOMAIN cache' = DOMAIN cache \cup {get_json_path(url)}
             /\ cache'[get_json_path(url)] = cjson_encode(data)
             /\ cjson_decode(cache'[get_json_path(url)])
                = [ok |-> TRUE, value |-> data]
             /\ \A p \in DOMAIN cache :
                   p # get_json_path(url) => cache'[p] = cache[p]
       /\ pc # "dump" => cache' = cache]_vars

\* A key fetched for the second time after its first fetch was logged: the
\* entry holds the second answer.
C8_Witness ==
    /\ pc = "update"
    /\ errors = 0
    /\ downloads[url] = 2
    /\ HasRecordOf(log, url)
    /\ data # None
    /\ cache[get_json_path(url)] = cjson_encode(data)

\* C10: from an empty cache and an empty log, in every state, also between
\* the steps of a call and after a call that an error aborted, every record
\* in the log (whole, or cut short after its digest and tab) has a cache
\* entry at the path of its key's hash.
C10_LogRecordHasCacheEntry ==
    \A k \in FetchKeys :
        HasRecordOf(log, k) => get_json_path(k) \in DOMAIN cache

\* After an aborted call: a whole record and a record cut short, each with
\* its cache entry.
C10_Witness ==
    /\ pc = "idle"
    /\ errors = 1
    /\ HasRecordOf(log, <<"u">>)
    /\ HasRecordOf(log, <<EACUTE>>)
    /\ load_items_cache(log).raised
    /\ {<<"u">>, <<EACUTE>>} \subseteq CachedKeys

-----------------------------------------------------------------------------
(* Properties of the graph builder *)

\* the related data of a user is missing or empty: no cache entry, a cached
\* null, a payload without 'chaining', or an empty list of nodes
MissingOrEmpty(user) ==
    LET path == get_json_path(get_insta_related_url(user.id))
    IN \/ path \notin DOMAIN cache
       \/ cache[path] = <<"null">>
       \/ cache[path] = <<"{}">>
       \/ cache[path] = <<JsonOpen, JsonClose>>

\* C6: a turn of make_graph for a seed user whose related data is missing or
\* empty adds no edge, raises nothing, and goes on to the next seed user.
C6_MissingDataGivesNoEdges ==
    [][(gpc = "loop" /\ gi <= Len(users) /\ MissingOrEmpty(users[gi]))
       => /\ graph' = graph
          /\ gpc' = "loop"
          /\ gi' = gi + 1]_vars

\* the pairs (seed username, related username) over all seed users and all
\* records of the payload cached for the user
RelatedPairs ==
    UNION {{<<users[i].username, r.username>> :
               r \in Range(load_insta_related(users[i].id, cache).records)} :
           i \in 1..Len(users)}

\* C7: the graph make_graph returns has as edges exactly the pairs (seed
\* username, related username), each once however often it was produced,
\* and as nodes exactly the endpoints of these edges.
C7_GraphIsTheRelatedPairs ==
    gpc = "done"
    => /\ Range(graph.edges) = RelatedPairs
       /\ Len(graph.edges) = Cardinality(RelatedPairs)
       /\ graph.nodes = {e[1] : e \in RelatedPairs} \cup {e[2] : e \in RelatedPairs}

\* alice, given twice as a seed, with bob and carol as related accounts: two
\* edges and three nodes.
C7_Witness ==
    /\ gpc = "done"
    /\ users = <<Alice, Alice>>
    /\ graph.edges = <<<<"alice", "bob">>, <<"alice", "carol">>>>
    /\ graph.nodes = {"alice", "bob", "carol"}

====
